---- MODULE Spec2Model ----
(***************************************************************************)
(* Session runtime of the multiplayer game system:                         *)
(*   cdk/lambda/universal-game-engine.js   (the universal game engine)     *)
(*   cdk/test-output-validator-tictactoe.js (a generated validator)        *)
(*   cdk/resolvers/createGame.js           (room creation)                 *)
(*                                                                         *)
(* One room (one DynamoDB item) is served by several Lambda containers.    *)
(* Every container has its own module-level stateCache and handles one     *)
(* invocation of exports.handler at a time; the containers run in          *)
(* parallel and share nothing but the table.  Pure timestamp fields        *)
(* (joinedAt, lastActivity, startedAt, endedAt, updatedAt) are left out of *)
(* the state records; Date.now() is kept where the code uses it as a       *)
(* value (stateVersion, cache age).                                        *)
(***************************************************************************)
EXTENDS Integers, Sequences, FiniteSets, TLC

None == "none"

\* ----- bounds of the model ------------------------------------------------
MaxSubmits == 2        \* invocations of exports.handler in one behaviour
MaxClock == 1          \* clock steps by which Date.now() may be ahead of T0
MaxEmits == 2          \* emit calls of the game and the interceptors on one bridge
MaxThrows == 2         \* consecutive postMessage calls that throw
MaxInjections == 2     \* applications of injectDataAttributes to one document

\* ----- program constants --------------------------------------------------
CACHE_TTL == 5000
T0 == 1000             \* Date.now() when the room is created

\* ----- inputs -------------------------------------------------------------
Procs == {"A", "B"}
PlayerIds == {"p1", "p2", "p3"}
Submitters == PlayerIds \cup {"system"}
Types == {"JOIN", "join", "START", "start", "MOVE", "move",
          "UPDATE", "update", "END", "end", "PING"}
GameTypes == {"turn-based", "board", "counter"}

Rows == {"0", "1", "2"}
AllPos == {"0,0", "0,1", "0,2", "1,0", "1,1", "1,2", "2,0", "2,1", "2,2"}
EmptyCells == [q \in AllPos |-> None]

\* action.data as the handlers read it: position, board, score, winner,
\* delta, gameActive, round and finalScores at the top level,
\* state.gameActive (stActive), state.currentTurn (stTurn), playerData.active
\* (pdActive).  "none" / -1 / 0 stand for an absent field; finalScores "{}"
\* is an empty object.
NoData == [position |-> None, board |-> None, stActive |-> None,
           pdActive |-> None, score |-> -1, winner |-> None, delta |-> 0,
           gameActive |-> None, round |-> 0, finalScores |-> None,
           stTurn |-> None]
\* the payloads submitted with each action type
PayloadsOf(type) ==
  CASE type \in {"START", "start"} -> {NoData, [NoData EXCEPT !.board = "rows"]}
    [] type \in {"MOVE", "move"} -> {NoData, [NoData EXCEPT !.position = "0,0"],
                                     [NoData EXCEPT !.position = "1,1"],
                                     [NoData EXCEPT !.delta = 1]}
    [] type \in {"UPDATE", "update"} -> {NoData, [NoData EXCEPT !.stActive = "true"],
                                         [NoData EXCEPT !.pdActive = "false"]}
    [] OTHER -> {NoData}

\* ----- objects keyed by player id, in insertion order (Object.keys) -------
Ids(ps) == {ps[i].id : i \in DOMAIN ps}
Has(ps, id) == id \in Ids(ps)
IndexOf(ps, id) == IF Has(ps, id) THEN CHOOSE i \in DOMAIN ps : ps[i].id = id ELSE 0
Get(ps, id) == ps[IndexOf(ps, id)]
\* { ...ps, [id]: rec } : an existing key keeps its place, a new one goes last
Put(ps, id, rec) == IF Has(ps, id) THEN [ps EXCEPT ![IndexOf(ps, id)] = rec]
                    ELSE Append(ps, rec)
KeysOf(ps) == [i \in DOMAIN ps |-> ps[i].id]
\* Object.keys(players).filter(id => players[id].active !== false)
ActiveIds(ps) == KeysOf(SelectSeq(ps, LAMBDA r : r.active))
\* Object.keys(players).filter(id => !players[id].eliminated)
NonEliminatedIds(ps) == KeysOf(SelectSeq(ps, LAMBDA r : ~r.eliminated))
\* ids[(ids.indexOf(id) + 1) % ids.length]; indexOf gives -1 for a missing
\* id, an empty list gives undefined
NextInList(ids, id) ==
  IF ids = << >> THEN None
  ELSE LET at == IF \E i \in DOMAIN ids : ids[i] = id
                 THEN (CHOOSE i \in DOMAIN ids : ids[i] = id) - 1 ELSE -1
       IN ids[((at + 1) % Len(ids)) + 1]

\* a player record: active is "active !== false", score 0 also stands for
\* an absent score (both fail score >= targetScore and give ... || 0)
NewPlayer(id, data) == [id |-> id, active |-> TRUE,
                        score |-> IF data.score # -1 THEN data.score ELSE 0,
                        eliminated |-> FALSE]

\* ----- game state ---------------------------------------------------------
\* board: has = the state has a board; rows = the board has the keys 0,1,2
\* (a 3-row array); cells = its "row,col" keys
NoBoard == [has |-> FALSE, rows |-> FALSE, cells |-> EmptyCells]
EmptyBoard == [has |-> TRUE, rows |-> FALSE, cells |-> EmptyCells]
RowsBoard == [has |-> TRUE, rows |-> TRUE, cells |-> EmptyCells]

\* empty: Object.keys(gameState).length === 0; 0 stands for an absent number;
\* startedAt is absent or the Date.now() of the START that set it;
\* finalScores lists the {id: score} entries in key order (absent: none)
EmptyState == [empty |-> TRUE, gameActive |-> FALSE, currentTurn |-> None,
               playerCount |-> 0, players |-> << >>, board |-> NoBoard,
               moveCount |-> 0, winner |-> None, round |-> 0,
               targetScore |-> 0, endedBy |-> None, counter |-> 0, target |-> 0,
               startedAt |-> None, finalScores |-> << >>]

\* { ...updatedState, ...data }: the fields of the payload that replace
\* fields the handler has just set
SpreadData(st, data) ==
  [st EXCEPT !.gameActive = IF data.gameActive # None
                            THEN data.gameActive = "true" ELSE @,
             !.round = IF data.round # 0 THEN data.round ELSE @,
             !.finalScores = IF data.finalScores # None THEN << >> ELSE @]

getFinalScores(players) ==
  [i \in DOMAIN players |-> [id |-> players[i].id, score |-> players[i].score]]

\* Object.keys(board).length
NumKeys(b) == (IF b.rows THEN 3 ELSE 0) + Cardinality({q \in AllPos : b.cells[q] # None})

\* JSON.stringify of a state: properties set on an array are not written
StringifyBoard(b) == IF b.rows THEN [b EXCEPT !.cells = EmptyCells] ELSE b
Stringify(gs) == [gs EXCEPT !.board = StringifyBoard(@)]

\* ----- results of processAction -----------------------------------------
\* stateChanged/newState/metadata.players (setPlayers, newPlayers) and the
\* response fields; mutated/aliasBoard: the board object of the loaded game
\* was written in place and now holds aliasBoard
Reject(err) ==
  [stateChanged |-> FALSE, newState |-> EmptyState, setPlayers |-> FALSE,
   newPlayers |-> << >>, success |-> FALSE, error |-> err, bcast |-> None,
   hasState |-> FALSE, mutated |-> FALSE, aliasBoard |-> NoBoard]
Accept(st, bc) ==
  [stateChanged |-> TRUE, newState |-> st, setPlayers |-> FALSE,
   newPlayers |-> << >>, success |-> TRUE, error |-> None, bcast |-> bc,
   hasState |-> TRUE, mutated |-> FALSE, aliasBoard |-> NoBoard]
AcceptWithPlayers(st, ps, bc) ==
  [Accept(st, bc) EXCEPT !.setPlayers = TRUE, !.newPlayers = ps]

\* ----- generic handlers (universal-game-engine.js) ------------------------
MaxPlayersOf(game) ==
  IF game.metadata.maxPlayers # 0 THEN game.metadata.maxPlayers
  ELSE IF game.gameType \in {"turn-based", "tictactoe", "chess"} THEN 2 ELSE 8

handleJoin(game, currentState, playerId, data) ==
  LET players == game.players
  IN IF Has(players, playerId) THEN Reject("Player already in game")
     ELSE IF Len(players) >= MaxPlayersOf(game) THEN Reject("Game is full")
     ELSE LET updatedPlayers == Append(players, NewPlayer(playerId, data))
              updatedState ==
                [currentState EXCEPT
                   !.empty = FALSE,
                   !.playerCount = Len(updatedPlayers),
                   !.currentTurn = IF currentState.currentTurn = None
                                      /\ Len(updatedPlayers) = 1
                                   THEN playerId ELSE @]
          IN AcceptWithPlayers(updatedState, updatedPlayers, "PLAYER_JOINED")

MinPlayersOf(game) ==
  IF game.metadata.minPlayers # 0 THEN game.metadata.minPlayers ELSE 1

\* handleStart marking the game active before the player count is checked
handleStart_ActivatesFirst(game, currentState, playerId, data) ==
  LET players == game.players
      started == [currentState EXCEPT !.empty = FALSE, !.gameActive = TRUE,
                                      !.startedAt = "Date.now()", !.round = 1]
  IN IF currentState.gameActive THEN Reject("Game already active")
     ELSE IF Len(players) < MinPlayersOf(game)
     THEN [Reject("Need at least N players to start") EXCEPT
             !.stateChanged = TRUE, !.newState = started]
     ELSE Accept(started, "GAME_STARTED")

handleStart(game, currentState, playerId, data) ==
  LET players == game.players
  IN IF currentState.gameActive THEN Reject("Game already active")
     ELSE IF Len(players) < MinPlayersOf(game) THEN Reject("Need at least N players to start")
     ELSE Accept(SpreadData(
                   [currentState EXCEPT
                      !.empty = FALSE,
                      !.gameActive = TRUE,
                      !.startedAt = "Date.now()",
                      !.currentTurn = IF @ # None THEN @
                                      ELSE IF players = << >> THEN None
                                      ELSE players[1].id,
                      !.round = 1,
                      !.board = IF data.board = "rows" THEN RowsBoard ELSE @,
                      !.winner = IF data.winner # None THEN data.winner ELSE @],
                   data),
                 "GAME_STARTED")

\* the patterns in the order of the source array
PatternSeq == << <<"0,0", "0,1", "0,2">>, <<"1,0", "1,1", "1,2">>,
                 <<"2,0", "2,1", "2,2">>, <<"0,0", "1,0", "2,0">>,
                 <<"0,1", "1,1", "2,1">>, <<"0,2", "1,2", "2,2">>,
                 <<"0,0", "1,1", "2,2">>, <<"0,2", "1,1", "2,0">> >>

checkWinCondition(state, players) ==
  LET scorers == {i \in DOMAIN players : players[i].score >= state.targetScore}
      activePlayers == ActiveIds(players)
      b == state.board
      full == {k \in DOMAIN PatternSeq :
                 /\ b.cells[PatternSeq[k][1]] # None
                 /\ b.cells[PatternSeq[k][1]] = b.cells[PatternSeq[k][2]]
                 /\ b.cells[PatternSeq[k][2]] = b.cells[PatternSeq[k][3]]}
  IN IF state.targetScore # 0 /\ scorers # {}
     THEN players[CHOOSE i \in scorers : \A j \in scorers : i <= j].id
     ELSE IF Len(activePlayers) = 1 THEN activePlayers[1]
     ELSE IF b.has /\ NumKeys(b) >= 5 /\ full # {}
     THEN b.cells[PatternSeq[CHOOSE k \in full : \A j \in full : k <= j][1]]
     ELSE None

handleMove(game, currentState, playerId, data) ==
  LET players == game.players
  IN IF ~currentState.gameActive THEN Reject("Game not active")
     ELSE IF ~Has(players, playerId) THEN Reject("Player not in game")
     ELSE IF currentState.currentTurn # None /\ currentState.currentTurn # playerId
     THEN Reject("Not your turn")
     ELSE LET board == IF data.position = None THEN currentState.board
                       ELSE [has |-> TRUE, rows |-> currentState.board.rows,
                             cells |-> [currentState.board.cells EXCEPT
                                          ![data.position] = playerId]]
              moved == [currentState EXCEPT
                          !.empty = FALSE,
                          !.moveCount = @ + 1,
                          !.currentTurn = IF @ # None
                                          THEN NextInList(ActiveIds(players), playerId)
                                          ELSE @,
                          !.board = board]
              winner == checkWinCondition(moved, players)
              updatedState == IF winner # None
                              THEN [moved EXCEPT !.gameActive = FALSE, !.winner = winner]
                              ELSE moved
          IN [Accept(updatedState, "MOVE_MADE") EXCEPT
                !.mutated = (data.position # None /\ currentState.board.has),
                !.aliasBoard = board]

handleUpdate(game, currentState, playerId, data) ==
  LET players == game.players
  IN IF ~Has(players, playerId) /\ playerId # "system" THEN Reject("Player not in game")
     ELSE LET updatedState == [currentState EXCEPT
                                 !.empty = FALSE,
                                 !.gameActive = IF data.stActive = "true" THEN TRUE ELSE @,
                                 !.currentTurn = IF data.stTurn # None
                                                 THEN data.stTurn ELSE @]
              old == IF Has(players, playerId) THEN Get(players, playerId)
                     ELSE [id |-> playerId, active |-> TRUE, score |-> 0,
                           eliminated |-> FALSE]
              updatedPlayers == IF data.pdActive = "false"
                                THEN Put(players, playerId, [old EXCEPT !.active = FALSE])
                                ELSE players
          IN AcceptWithPlayers(updatedState, updatedPlayers, "STATE_UPDATE")

handleEnd(game, currentState, playerId, data) ==
  IF ~currentState.gameActive THEN Reject("Game not active")
  ELSE Accept(SpreadData(
                [currentState EXCEPT
                   !.empty = FALSE,
                   !.gameActive = FALSE,
                   !.endedBy = playerId,
                   !.winner = data.winner,
                   !.finalScores = getFinalScores(game.players),
                   !.board = IF data.board = "rows" THEN RowsBoard ELSE @],
                data),
              "GAME_ENDED")

processGenericAction(game, currentState, type, playerId, data) ==
  CASE type \in {"JOIN", "join"} -> handleJoin(game, currentState, playerId, data)
    [] type \in {"START", "start"} -> handleStart(game, currentState, playerId, data)
    [] type \in {"MOVE", "move"} -> handleMove(game, currentState, playerId, data)
    [] type \in {"UPDATE", "update"} -> handleUpdate(game, currentState, playerId, data)
    [] type \in {"END", "end"} -> handleEnd(game, currentState, playerId, data)
    [] OTHER -> [Reject(None) EXCEPT !.success = TRUE]

\* ----- the generated validator (test-output-validator-tictactoe.js) -------
\* a validator result {valid, reason, updatedState, broadcast}; hasUpdated:
\* updatedState is an object
VReject(reason) == [valid |-> FALSE, reason |-> reason, hasUpdated |-> FALSE,
                    updatedState |-> EmptyState, broadcast |-> None]
VAccept(st, bc) == [valid |-> TRUE, reason |-> None, hasUpdated |-> TRUE,
                    updatedState |-> st, broadcast |-> bc]

createEmptyBoard == EmptyBoard

V_InitialState == [EmptyState EXCEPT !.empty = FALSE, !.board = createEmptyBoard]

V_handleJoinGame(state, playerId, data) ==
  IF Len(state.players) >= 2 THEN VReject("Game is full")
  ELSE IF Has(state.players, playerId) THEN VReject("Player already in game")
  ELSE LET ps == Append(state.players, NewPlayer(playerId, data))
       IN VAccept([state EXCEPT
                     !.players = ps,
                     !.currentTurn = IF state.currentTurn = None /\ Len(ps) = 1
                                     THEN playerId ELSE @],
                  "PLAYER_JOINED")

V_handleStartGame(state, playerId, data) ==
  IF state.gameActive THEN VReject("Game already active")
  ELSE IF Len(state.players) < 2 THEN VReject("Not enough players")
  ELSE VAccept(SpreadData(
                 [state EXCEPT
                    !.gameActive = TRUE,
                    !.startedAt = "Date.now()",
                    !.board = IF data.board = "rows" THEN RowsBoard ELSE createEmptyBoard,
                    !.currentTurn = state.players[1].id,
                    !.winner = IF data.winner # None THEN data.winner ELSE @],
                 data),
               "GAME_STARTED")

getNextPlayer(players, currentPlayerId) ==
  NextInList(NonEliminatedIds(players), currentPlayerId)

isValidBoardMove(board, position) ==
  board.has /\ position # None /\ board.cells[position] = None

\* the tic-tac-toe checkWinCondition reads board[i][j]: it throws unless the
\* board has the keys 0..2; on a 3-row array of nulls it finds no line and
\* no draw
V_checkWinThrows(board) == board.has /\ ~board.rows

V_handleMove(state, playerId, data) ==
  IF ~state.gameActive THEN VReject("Game not active")
  ELSE IF ~Has(state.players, playerId) THEN VReject("Player not in game")
  ELSE IF state.currentTurn # playerId THEN VReject("Not your turn")
  ELSE IF data.position # None /\ ~isValidBoardMove(state.board, data.position)
  THEN VReject("Invalid board position")
  ELSE IF ~state.board.has \/ V_checkWinThrows(state.board)
  THEN VReject("Validation error")
  ELSE VAccept([state EXCEPT
                  !.board = IF data.position = None THEN @
                            ELSE [@ EXCEPT !.cells[data.position] = playerId],
                  !.currentTurn = getNextPlayer(state.players, playerId),
                  !.moveCount = @ + 1],
               "MOVE_MADE")

V_handleUpdate(state, playerId, data) ==
  IF ~Has(state.players, playerId) THEN VReject("Player not in game")
  ELSE VAccept(IF data.score = -1 THEN state
               ELSE [state EXCEPT
                       !.players = Put(@, playerId,
                                       [Get(@, playerId) EXCEPT !.score = data.score])],
               "STATE_UPDATE")

V_handleEndGame(state, playerId, data) ==
  IF ~state.gameActive THEN VReject("Game not active")
  ELSE VAccept(SpreadData(
                 [state EXCEPT
                    !.gameActive = FALSE,
                    !.endedBy = playerId,
                    !.winner = data.winner,
                    !.finalScores = getFinalScores(state.players),
                    !.board = IF data.board = "rows" THEN RowsBoard ELSE @],
                 data),
               "GAME_ENDED")

V_handleCustomAction(action, state, playerId, data) == VAccept(state, "CUSTOM_ACTION")

\* exports.handler of the validator; the event and the result cross the
\* Lambda boundary as JSON
V_handler(action, gameState, playerId, data) ==
  LET state == Stringify(gameState)
      r == IF state.empty THEN VAccept(V_InitialState, None)
           ELSE CASE action = "join" -> V_handleJoinGame(state, playerId, data)
                  [] action = "start" -> V_handleStartGame(state, playerId, data)
                  [] action = "move" -> V_handleMove(state, playerId, data)
                  [] action = "update" -> V_handleUpdate(state, playerId, data)
                  [] action = "end" -> V_handleEndGame(state, playerId, data)
                  [] OTHER -> V_handleCustomAction(action, state, playerId, data)
  IN [r EXCEPT !.updatedState = Stringify(@)]

\* ----- processAction (universal-game-engine.js) ---------------------------
\* invokeValidator: the validator's answer in the engine's result format
invokeValidator(game, gameState, type, playerId, data) ==
  LET result == V_handler(type, gameState, playerId, data)
  IN [stateChanged |-> result.valid /\ result.hasUpdated,
      newState |-> result.updatedState, setPlayers |-> FALSE,
      newPlayers |-> << >>, success |-> result.valid, error |-> result.reason,
      bcast |-> result.broadcast, hasState |-> result.hasUpdated,
      mutated |-> FALSE, aliasBoard |-> NoBoard]

HasValidator(game) == game.serverLogicUrl = "arn:aws:lambda"

\* invoked: the Lambda invocation of the validator returned a payload;
\* otherwise invokeValidator returned null and the generic handlers run
processAction(game, type, playerId, data, invoked) ==
  IF HasValidator(game) /\ invoked
  THEN invokeValidator(game, game.gameState, type, playerId, data)
  ELSE processGenericAction(game, game.gameState, type, playerId, data)

\* ----- rooms as createGame stores them (resolvers/createGame.js) ----------
NoMetadata == [maxPlayers |-> 0, minPlayers |-> 0]
Arn == "arn:aws:lambda"

createGame(gameType, initialState, players, metadata, url) ==
  [gameType |-> gameType, gameState |-> initialState, players |-> players,
   metadata |-> metadata, serverLogicUrl |-> url, stateVersion |-> 0,
   conversionStatus |-> None]

TwoPlayers == << NewPlayer("p1", NoData), NewPlayer("p2", NoData) >>
\* the lobby after JOIN p1, JOIN p2 on the generic path / through the validator
LobbyOfTwo == [EmptyState EXCEPT !.empty = FALSE, !.playerCount = 2,
                                 !.currentTurn = "p1"]
V_LobbyOfTwo == [V_InitialState EXCEPT !.players = TwoPlayers, !.currentTurn = "p1"]

CreatedRooms ==
  { createGame("turn-based", EmptyState, << >>, NoMetadata, ""),
    createGame("board", LobbyOfTwo, TwoPlayers, NoMetadata, ""),
    createGame("counter", EmptyState, << >>, [maxPlayers |-> 3, minPlayers |-> 2], ""),
    createGame("turn-based", LobbyOfTwo, TwoPlayers, NoMetadata, ""),
    createGame("turn-based", EmptyState, << >>, NoMetadata, Arn),
    createGame("turn-based", V_LobbyOfTwo, << >>, NoMetadata, Arn) }

\* ----- state --------------------------------------------------------------
VARIABLES
  store,       \* the room's item in the game table
  stateCache,  \* per container: the module-level stateCache entry of the room
  pc,          \* per container: "idle", "load" (handler entered), "save"
               \* (processAction returned stateChanged, saveGameState pending)
  req,         \* per container: the invocation in progress
  now,         \* Date.now()
  nsub,        \* invocations started so far
  lastResp,    \* the envelope returned by the step just taken (seq 0: none)
  lastCommit,  \* the store write made by the step just taken (seq 0: none)
  joinsOk,     \* JOIN invocations that returned success:true, counted
               \* while onlyJoins holds
  onlyJoins,   \* every invocation so far carried a JOIN
  emptyStart,  \* the room was created without players
  rooms,       \* the game table and the containers when several rooms are
               \* served: table, cache, inv (invocation per container), n
  conv,        \* the conversion Lambda (ai-convert.js): the requests for one
               \* gameId and what they have left in Lambda and S3
  bridge       \* a GameEventBridge (multiplayer-lib.js) and what its host
               \* frame has received

vars == <<store, stateCache, pc, req, now, nsub, lastResp, lastCommit,
          joinsOk, onlyJoins, emptyStart, rooms, conv, bridge>>
engineVars == <<store, stateCache, pc, req, now, nsub, lastResp, lastCommit,
                joinsOk, onlyJoins, emptyStart>>

NoCache == [valid |-> FALSE, data |-> createGame("", EmptyState, << >>, NoMetadata, ""),
            timestamp |-> 0]
NoReq == [type |-> None, playerId |-> None, result |-> Reject(None),
          timedOut |-> FALSE, fallback |-> FALSE]
NoResp == [sent |-> FALSE, type |-> None, playerId |-> None, success |-> FALSE,
           error |-> None, broadcast |-> None, hasState |-> FALSE,
           state |-> EmptyState, stateVersion |-> 0, shouldRetry |-> FALSE,
           fallback |-> FALSE]
NoCommit == [done |-> FALSE, timedOut |-> FALSE, type |-> None, playerId |-> None]

\* the rooms of the table: the Key of an item is marshall({ gameId }), the
\* stateCache Map is keyed by the gameId string
GameIds == {"g1", "g2"}
marshallKey_Fixed(gameId) == [gameId |-> [S |-> "g1"]]
marshallKey(gameId) == [gameId |-> [S |-> gameId]]
TableKeys == { marshallKey(gameId) : gameId \in GameIds }
NoInv == [pc |-> "idle", gameId |-> None, result |-> Reject(None)]
NoRooms == [table |-> [k \in TableKeys |->
                          createGame("", EmptyState, << >>, NoMetadata, "")],
            cache |-> [p \in Procs |-> [gameId \in GameIds |-> NoCache]],
            inv |-> [p \in Procs |-> NoInv],
            n |-> 0]

\* the requests to convert one game; no request has been made, nothing is
\* deployed or stored
Reqs == {"r1", "r2"}
\* gameHtml: the document submitted; enhancedHtml: the document after
\* `injections` applications of injectDataAttributes
NoAnalysis == [statePatterns |-> << >>, hasBoard |-> FALSE, hasCanvas |-> FALSE]
NoConv == [pc |-> [r \in Reqs |-> "new"],
           arn |-> [r \in Reqs |-> None],
           created |-> [r \in Reqs |-> FALSE],
           llmCalls |-> 0,
           html |-> None,
           validatorJs |-> None,
           gameHtml |-> << >>,
           analysis |-> NoAnalysis,
           enhancedHtml |-> << >>,
           injections |-> 0]

\* a bridge before its constructor has run
NoBridge == [eventQueue |-> << >>, sequenceNumber |-> 0, posted |-> << >>,
             emitted |-> << >>, batchEvents |-> TRUE, hasParent |-> TRUE, n |-> 0,
             autoIntercept |-> TRUE, batchTimer |-> FALSE, observing |-> FALSE,
             destroyed |-> FALSE, nested |-> 0, dom |-> None]

Init ==
  /\ store \in CreatedRooms
  /\ stateCache = [p \in Procs |-> NoCache]
  /\ pc = [p \in Procs |-> "idle"]
  /\ req = [p \in Procs |-> NoReq]
  /\ now = T0
  /\ nsub = 0
  /\ lastResp = NoResp
  /\ lastCommit = NoCommit
  /\ joinsOk = 0
  /\ onlyJoins = TRUE
  /\ emptyStart = (store.players = << >> /\ store.gameState.players = << >>)
  /\ rooms = NoRooms
  /\ conv = NoConv
  /\ bridge = NoBridge

\* the envelope processGameAction returns for a result
Envelope(r, rq, version) ==
  [sent |-> TRUE, type |-> rq.type, playerId |-> rq.playerId,
   success |-> r.success, error |-> r.error, broadcast |-> r.bcast,
   hasState |-> r.hasState,
   state |-> IF r.hasState THEN Stringify(r.newState) ELSE EmptyState,
   stateVersion |-> version, shouldRetry |-> FALSE, fallback |-> rq.fallback]

\* exports.handler is entered in container p
Submit(p) ==
  /\ pc[p] = "idle"
  /\ nsub < MaxSubmits
  /\ nsub' = nsub + 1
  /\ pc' = [pc EXCEPT ![p] = "load"]
  /\ lastResp' = NoResp
  /\ lastCommit' = NoCommit
  /\ UNCHANGED <<conv, bridge, rooms, store, stateCache, req, now, joinsOk, onlyJoins, emptyStart>>

\* loadGameState
CacheHit(p) == stateCache[p].valid /\ now - stateCache[p].timestamp < CACHE_TTL
loadGameState(p) == IF CacheHit(p) THEN stateCache[p].data ELSE store
CacheAfterLoad(p) == IF CacheHit(p) THEN stateCache[p]
                     ELSE [valid |-> TRUE, data |-> store, timestamp |-> now]

\* processGameAction up to the save: load the game, run processAction; a
\* result without stateChanged is returned at once
Process(p, type, playerId, data, invoked) ==
  /\ pc[p] = "load"
  /\ LET game == loadGameState(p)
         result == processAction(game, type, playerId, data, invoked)
         loaded == CacheAfterLoad(p)
         rq == [req[p] EXCEPT !.type = type, !.playerId = playerId,
                              !.result = result,
                              !.fallback = HasValidator(game) /\ ~invoked]
     IN /\ stateCache' = [stateCache EXCEPT ![p] =
                            IF result.mutated
                            THEN [loaded EXCEPT !.data.gameState.board = result.aliasBoard]
                            ELSE loaded]
        /\ IF result.stateChanged
           THEN /\ pc' = [pc EXCEPT ![p] = "save"]
                /\ req' = [req EXCEPT ![p] = rq]
                /\ lastResp' = NoResp
                /\ joinsOk' = IF onlyJoins /\ type \in {"JOIN", "join"}
                              THEN joinsOk ELSE 0
           ELSE /\ pc' = [pc EXCEPT ![p] = "idle"]
                /\ req' = [req EXCEPT ![p] = NoReq]
                /\ lastResp' = IF rq.timedOut THEN NoResp ELSE Envelope(result, rq, 0)
                /\ joinsOk' = IF ~(onlyJoins /\ type \in {"JOIN", "join"}) THEN 0
                              ELSE IF result.success /\ ~rq.timedOut
                              THEN joinsOk + 1 ELSE joinsOk
  /\ onlyJoins' = (onlyJoins /\ type \in {"JOIN", "join"})
  /\ lastCommit' = NoCommit
  /\ UNCHANGED <<conv, bridge, rooms, store, now, nsub, emptyStart>>

\* saveGameState succeeds: the UpdateItem writes gameState, stateVersion and,
\* when metadata.players is given, players; the cache entry is deleted
Save(p) ==
  /\ pc[p] = "save"
  /\ LET r == req[p].result
         version == now
     IN /\ store' = [store EXCEPT
                       !.gameState = Stringify(r.newState),
                       !.stateVersion = version,
                       !.players = IF r.setPlayers THEN r.newPlayers ELSE @]
        /\ lastResp' = IF req[p].timedOut THEN NoResp ELSE Envelope(r, req[p], version)
        /\ lastCommit' = [done |-> TRUE, timedOut |-> req[p].timedOut,
                          type |-> req[p].type, playerId |-> req[p].playerId]
        /\ joinsOk' = IF onlyJoins /\ r.success /\ ~req[p].timedOut
                      THEN joinsOk + 1 ELSE joinsOk
  /\ stateCache' = [stateCache EXCEPT ![p] = NoCache]
  /\ pc' = [pc EXCEPT ![p] = "idle"]
  /\ req' = [req EXCEPT ![p] = NoReq]
  /\ UNCHANGED <<conv, bridge, rooms, now, nsub, onlyJoins, emptyStart>>

\* saveGameState throws: the handler returns the error, nothing is written
\* and the cache entry stays
SaveFail(p) ==
  /\ pc[p] = "save"
  /\ lastResp' = IF req[p].timedOut THEN NoResp
                 ELSE [NoResp EXCEPT !.sent = TRUE, !.type = req[p].type,
                                     !.playerId = req[p].playerId,
                                     !.error = "Failed to save game state"]
  /\ lastCommit' = NoCommit
  /\ pc' = [pc EXCEPT ![p] = "idle"]
  /\ req' = [req EXCEPT ![p] = NoReq]
  /\ UNCHANGED <<conv, bridge, rooms, store, stateCache, now, nsub, joinsOk, onlyJoins, emptyStart>>

\* withTimeout: the timer wins the race; the handler returns the retry
\* envelope and processGameAction keeps running
Timeout(p) ==
  /\ pc[p] \in {"load", "save"}
  /\ ~req[p].timedOut
  /\ req' = [req EXCEPT ![p].timedOut = TRUE]
  /\ lastResp' = [NoResp EXCEPT !.sent = TRUE,
                                !.error = "Processing timeout - please retry",
                                !.shouldRetry = TRUE]
  /\ lastCommit' = NoCommit
  /\ UNCHANGED <<conv, bridge, rooms, store, stateCache, pc, now, nsub, joinsOk, onlyJoins, emptyStart>>

\* Time passes.  The clock of the model moves in steps of the cache
\* lifetime; two reads of Date.now() with no step between them are reads
\* within one millisecond.
Tick ==
  /\ now < T0 + MaxClock * CACHE_TTL
  /\ now' = now + CACHE_TTL
  /\ lastResp' = NoResp
  /\ lastCommit' = NoCommit
  /\ UNCHANGED <<conv, bridge, rooms, store, stateCache, pc, req, nsub, joinsOk, onlyJoins, emptyStart>>

\* a deployed validator answers (TRUE) or its invocation fails (FALSE)
InvokeOutcomes == IF HasValidator(store) THEN BOOLEAN ELSE {FALSE}
\* processGenericAction treats the two spellings of a kind alike; the
\* lower-case spelling is submitted where it makes a difference, to a
\* validator that answers
LowerTypes == {"join", "start", "move", "update", "end"}
Spelled(type, invoked) == type \in LowerTypes => invoked

\* one container handles every invocation, one after the other; the clock
\* moves between invocations
Next ==
  \/ Submit("A")
  \/ \E type \in Types, playerId \in Submitters :
       \E data \in PayloadsOf(type), invoked \in InvokeOutcomes :
          Spelled(type, invoked) /\ Process("A", type, playerId, data, invoked)
  \/ Save("A")
  \/ SaveFail("A")
  \/ Timeout("A")
  \/ (pc["A"] = "idle" /\ Tick)

Spec == Init /\ [][Next]_vars

\* two containers handle invocations in parallel (the first invocation goes
\* to container A); the store answers every write
NextPar ==
  \/ \E p \in Procs : (p = "A" \/ nsub > 0) /\ Submit(p)
  \/ \E p \in Procs, type \in Types, playerId \in Submitters :
       \E data \in PayloadsOf(type), invoked \in InvokeOutcomes :
          Spelled(type, invoked) /\ Process(p, type, playerId, data, invoked)
  \/ \E p \in Procs : Save(p)
  \/ Tick

SpecPar == Init /\ [][NextPar]_vars

\* container B has served a submit that changed nothing (an unknown kind)
\* at T0: loadGameState left the room it read in the cache of B
InitWarm ==
  /\ store \in CreatedRooms
  /\ stateCache = [p \in Procs |->
                     IF p = "B" THEN [valid |-> TRUE, data |-> store, timestamp |-> T0]
                     ELSE NoCache]
  /\ pc = [p \in Procs |-> "idle"]
  /\ req = [p \in Procs |-> NoReq]
  /\ now = T0
  /\ nsub = 0
  /\ lastResp = NoResp
  /\ lastCommit = NoCommit
  /\ joinsOk = 0
  /\ onlyJoins = FALSE
  /\ emptyStart = (store.players = << >> /\ store.gameState.players = << >>)
  /\ rooms = NoRooms
  /\ conv = NoConv
  /\ bridge = NoBridge

SpecWarm == InitWarm /\ [][NextPar]_vars

\* ----- the resolvers that write the table (lib/game-stack.ts) -------------
\* createGame stores the initialState the client sends: a game already in
\* play
ActiveOfTwo == [LobbyOfTwo EXCEPT !.gameActive = TRUE, !.round = 1,
                                 !.startedAt = "Date.now()"]
\* a room whose conversion has been requested and has not completed
PendingRoom ==
  [createGame("turn-based", EmptyState, << >>, NoMetadata, "")
     EXCEPT !.conversionStatus = "pending"]

\* a counter game in play: the counter is one MOVE short of or two MOVEs
\* short of its target
CounterOfTwo == [ActiveOfTwo EXCEPT !.counter = 0, !.target = 2]
OpsRooms ==
  { createGame("turn-based", ActiveOfTwo, TwoPlayers, NoMetadata, ""),
    createGame("counter", CounterOfTwo, TwoPlayers, NoMetadata, ""),
    PendingRoom,
    createGame("turn-based", V_LobbyOfTwo, << >>, NoMetadata, Arn) }

InitOps ==
  /\ store \in OpsRooms
  /\ stateCache = [p \in Procs |-> NoCache]
  /\ pc = [p \in Procs |-> "idle"]
  /\ req = [p \in Procs |-> NoReq]
  /\ now = T0
  /\ nsub = 0
  /\ lastResp = NoResp
  /\ lastCommit = NoCommit
  /\ joinsOk = 0
  /\ onlyJoins = TRUE
  /\ emptyStart = (store.players = << >> /\ store.gameState.players = << >>)
  /\ rooms = NoRooms
  /\ conv = NoConv
  /\ bridge = NoBridge

\* the createGame resolver called again with the identifier of the room:
\* an unconditional PutItem, which replaces the whole item
CreateGameAgain(gameType, initialState, players, metadata) ==
  /\ nsub < MaxSubmits
  /\ nsub' = nsub + 1
  /\ store' = createGame(gameType, initialState, players, metadata, "")
  /\ lastResp' = NoResp
  /\ lastCommit' = NoCommit
  /\ UNCHANGED <<conv, bridge, rooms, stateCache, pc, req, now, joinsOk, onlyJoins, emptyStart>>

\* the joinGame resolver: SET players = :playerInfo on the existing item
JoinGame(playerInfo) ==
  /\ nsub < MaxSubmits
  /\ nsub' = nsub + 1
  /\ store' = [store EXCEPT !.players = playerInfo]
  /\ lastResp' = NoResp
  /\ lastCommit' = NoCommit
  /\ UNCHANGED <<conv, bridge, rooms, stateCache, pc, req, now, joinsOk, onlyJoins, emptyStart>>

\* the players a client sends to joinGame: itself alone, or itself added to
\* the players it has read
PlayerInfos == { << NewPlayer("p3", NoData) >>,
                 Put(store.players, "p3", NewPlayer("p3", NoData)) }

\* one container and the resolvers
NextOps ==
  \/ Next
  \/ CreateGameAgain(store.gameType, EmptyState, << >>, NoMetadata)
  \/ \E playerInfo \in PlayerInfos : JoinGame(playerInfo)

SpecOps == InitOps /\ [][NextOps]_vars

\* ----- several rooms in one table (universal-game-engine.js) -------------
\* loadGameState(gameId) in container p
LoadedGame(table, cache, p, gameId) ==
  IF cache[p][gameId].valid /\ now - cache[p][gameId].timestamp < CACHE_TTL
  THEN cache[p][gameId].data
  ELSE table[marshallKey(gameId)]
LoadedEntry(table, cache, p, gameId) ==
  IF cache[p][gameId].valid /\ now - cache[p][gameId].timestamp < CACHE_TTL
  THEN cache[p][gameId]
  ELSE [valid |-> TRUE, data |-> table[marshallKey(gameId)], timestamp |-> now]

StartRooms ==
  { createGame("turn-based", EmptyState, << >>, NoMetadata, ""),
    createGame("board", LobbyOfTwo, TwoPlayers, NoMetadata, "") }
RoomTypes == {"JOIN", "START", "MOVE", "END"}
RoomPlayers == {"p1", "p2"}

InitRooms ==
  /\ store = createGame("turn-based", EmptyState, << >>, NoMetadata, "")
  /\ stateCache = [p \in Procs |-> NoCache]
  /\ pc = [p \in Procs |-> "idle"]
  /\ req = [p \in Procs |-> NoReq]
  /\ now = T0
  /\ nsub = 0
  /\ lastResp = NoResp
  /\ lastCommit = NoCommit
  /\ joinsOk = 0
  /\ onlyJoins = TRUE
  /\ emptyStart = TRUE
  /\ rooms \in { [NoRooms EXCEPT !.table = t] : t \in [TableKeys -> StartRooms] }
  /\ conv = NoConv
  /\ bridge = NoBridge

\* exports.handler is entered in container p with an action for gameId
SubmitTo(p, gameId) ==
  /\ rooms.inv[p].pc = "idle"
  /\ rooms.n < MaxSubmits
  /\ rooms' = [rooms EXCEPT !.n = @ + 1,
                            !.inv[p] = [NoInv EXCEPT !.pc = "load", !.gameId = gameId]]
  /\ UNCHANGED <<engineVars, conv, bridge>>

\* processGameAction up to the save, for the room of the invocation
ProcessIn(p, type, playerId, data) ==
  /\ rooms.inv[p].pc = "load"
  /\ LET gameId == rooms.inv[p].gameId
         game == LoadedGame(rooms.table, rooms.cache, p, gameId)
         result == processAction(game, type, playerId, data, FALSE)
         loaded == LoadedEntry(rooms.table, rooms.cache, p, gameId)
         entry == IF result.mutated
                  THEN [loaded EXCEPT !.data.gameState.board = result.aliasBoard]
                  ELSE loaded
     IN rooms' = [rooms EXCEPT
                    !.cache[p][gameId] = entry,
                    !.inv[p] = IF result.stateChanged
                               THEN [@ EXCEPT !.pc = "save", !.result = result]
                               ELSE NoInv]
  /\ UNCHANGED <<engineVars, conv, bridge>>

\* saveGameState(gameId, ...) : the UpdateItem on the item of the room, then
\* stateCache.delete(gameId)
SaveIn(p) ==
  /\ rooms.inv[p].pc = "save"
  /\ LET gameId == rooms.inv[p].gameId
         r == rooms.inv[p].result
     IN rooms' = [rooms EXCEPT
                    !.table[marshallKey(gameId)] =
                       [@ EXCEPT !.gameState = Stringify(r.newState),
                                 !.stateVersion = now,
                                 !.players = IF r.setPlayers THEN r.newPlayers ELSE @],
                    !.cache[p][gameId] = NoCache,
                    !.inv[p] = NoInv]
  /\ UNCHANGED <<engineVars, conv, bridge>>

NextRooms ==
  \/ \E p \in Procs, gameId \in GameIds : SubmitTo(p, gameId)
  \/ \E p \in Procs, type \in RoomTypes, playerId \in RoomPlayers :
       \E data \in PayloadsOf(type) : ProcessIn(p, type, playerId, data)
  \/ \E p \in Procs : SaveIn(p)

SpecRooms == InitRooms /\ [][NextRooms]_vars

\* ----- the conversion Lambda (lambda/ai-convert.js) -----------------------
\* pc of a request: new (not made), start (handler entered), analyzed,
\* converted (callOpenAI returned), deployed, htmlStored, done (the result
\* is returned), failed (the handler threw)
InitConv ==
  /\ store = createGame("turn-based", EmptyState, << >>, NoMetadata, "")
  /\ stateCache = [p \in Procs |-> NoCache]
  /\ pc = [p \in Procs |-> "idle"]
  /\ req = [p \in Procs |-> NoReq]
  /\ now = T0
  /\ nsub = 0
  /\ lastResp = NoResp
  /\ lastCommit = NoCommit
  /\ joinsOk = 0
  /\ onlyJoins = TRUE
  /\ emptyStart = TRUE
  /\ rooms = NoRooms
  /\ conv = NoConv
  /\ bridge = NoBridge

\* exports.handler is invoked with operation convertToMultiplayer
RequestConversion(r) ==
  /\ conv.pc[r] = "new"
  /\ conv' = [conv EXCEPT !.pc[r] = "start"]
  /\ UNCHANGED <<engineVars, rooms, bridge>>

\* steps 1-3: analyzeGameStructure, injectDataAttributes,
\* buildConversionPrompt; an exception goes to the catch of the handler
Analyze(r, ok) ==
  /\ conv.pc[r] = "start"
  /\ conv' = [conv EXCEPT !.pc[r] = IF ok THEN "analyzed" ELSE "failed"]
  /\ UNCHANGED <<engineVars, rooms, bridge>>

\* step 4: callOpenAI returns the converted document or throws
callOpenAI(r, ok) ==
  /\ conv.pc[r] = "analyzed"
  /\ conv' = [conv EXCEPT !.pc[r] = IF ok THEN "converted" ELSE "failed",
                          !.llmCalls = @ + 1]
  /\ UNCHANGED <<engineVars, rooms, bridge>>

\* steps 5-6: deployServerCode.  CreateFunction succeeds ("created"); fails
\* on the role ("role": a mock ARN is returned); finds the name taken
\* ("conflict": the ARN of the existing function); fails otherwise
\* ("error": the outer catch returns a placeholder ARN).  It never throws.
DeployOutcomes == {"created", "role", "conflict", "error"}
deployServerCode(r, outcome) ==
  /\ conv.pc[r] = "converted"
  /\ outcome = "conflict" => \E r2 \in Reqs : conv.created[r2]
  /\ conv' = [conv EXCEPT
                !.pc[r] = "deployed",
                !.created[r] = (outcome = "created"),
                !.arn[r] = CASE outcome \in {"created", "conflict"} -> "function"
                             [] outcome = "role" -> "mock"
                             [] OTHER -> "placeholder"]
  /\ UNCHANGED <<engineVars, rooms, bridge>>

\* steps 7-8: the document is put at games/<gameId>/index.html
PutHtml(r, ok) ==
  /\ conv.pc[r] = "deployed"
  /\ conv' = [conv EXCEPT !.pc[r] = IF ok THEN "htmlStored" ELSE "failed",
                          !.html = IF ok THEN r ELSE @]
  /\ UNCHANGED <<engineVars, rooms, bridge>>

\* step 9 and the return: the validator code is put at
\* games/<gameId>/validator.js and the result is returned
PutValidator(r, ok) ==
  /\ conv.pc[r] = "htmlStored"
  /\ conv' = [conv EXCEPT !.pc[r] = IF ok THEN "done" ELSE "failed",
                          !.validatorJs = IF ok THEN r ELSE @]
  /\ UNCHANGED <<engineVars, rooms, bridge>>

NextConv ==
  \/ \E r \in Reqs : RequestConversion(r)
  \/ \E r \in Reqs, ok \in BOOLEAN : Analyze(r, ok)
  \/ \E r \in Reqs, ok \in BOOLEAN : callOpenAI(r, ok)
  \/ \E r \in Reqs, outcome \in DeployOutcomes : deployServerCode(r, outcome)
  \/ \E r \in Reqs, ok \in BOOLEAN : PutHtml(r, ok)
  \/ \E r \in Reqs, ok \in BOOLEAN : PutValidator(r, ok)

SpecConv == InitConv /\ [][NextConv]_vars

\* ----- marker injection (ai-convert.js: injectDataAttributes) -------------
\* The document is a sequence of opening tags.  A tag is its name and the
\* pieces of text that follow it: attributes name="value"; gt: the value
\* holds a '>' (an inline handler such as onclick="if(a>b)f()"); inj: the
\* text the injection has put into the value, before that '>'.
Piece(name, value, gt) == [name |-> name, value |-> value, gt |-> gt, inj |-> << >>]
ActionMarker == "data-game-action"
StateMarker == "data-game-state"
TouchMarker == "data-game-touch"
MarkerNames == {ActionMarker, StateMarker, TouchMarker}
Pieces == { Piece("id", "score", FALSE), Piece("class", "cell", FALSE),
            Piece("class", "scoreboard", FALSE),
            Piece(ActionMarker, "go", FALSE), Piece(StateMarker, "hp", FALSE),
            Piece(TouchMarker, "pad", FALSE),
            Piece("onclick", "if(a>b)f()", TRUE) }
TagNames == {"button", "div", "span", "td", "canvas"}
Tags == { [tag |-> t, pieces |-> ps] :
            t \in TagNames,
            ps \in { << >> } \cup { << x >> : x \in Pieces }
                     \cup { << x, y >> : x \in Pieces, y \in Pieces } }

\* the analysis given to the injection (analyzeGameElements)
Analyses == { [statePatterns |-> sp, hasBoard |-> hb, hasCanvas |-> hc] :
                sp \in { << >>, << "score" >>, << "score", "board" >>,
                         << "score", "board", "cell" >> },
                hb \in BOOLEAN, hc \in BOOLEAN }

\* value contains word, for the values and words of the model
Contains(value, word) ==
  \/ value = word
  \/ value = "scoreboard" /\ word \in {"score", "board"}

\* the first piece with a '>' in its value (0: none): [^>]* stops there
FirstGt(ps) == IF \E k \in DOMAIN ps : ps[k].gt
               THEN CHOOSE k \in DOMAIN ps :
                      ps[k].gt /\ \A j \in DOMAIN ps : ps[j].gt => k <= j
               ELSE 0
\* the attributes within the text that [^>]* matches
Before(ps) == IF FirstGt(ps) = 0 THEN ps ELSE SubSeq(ps, 1, FirstGt(ps) - 1)
\* text.includes(marker) on the text that [^>]* matches
Includes(ps, marker) ==
  \/ \E i \in DOMAIN Before(ps) : ps[i].name = marker
  \/ /\ FirstGt(ps) # 0
     /\ \E j \in DOMAIN ps[FirstGt(ps)].inj : ps[FirstGt(ps)].inj[j].name = marker
HasAttr(ps, names, words) ==
  \E i \in DOMAIN Before(ps) :
     ps[i].name \in names /\ \E w \in words : Contains(ps[i].value, w)

\* `${tag} marker="value">`: the marker goes in front of the first '>'
Insert(el, marker, value) ==
  IF Includes(el.pieces, marker) THEN el
  ELSE IF FirstGt(el.pieces) = 0
  THEN [el EXCEPT !.pieces = Append(@, Piece(marker, value, FALSE))]
  ELSE [el EXCEPT !.pieces[FirstGt(el.pieces)].inj =
                     Append(@, [name |-> marker, value |-> value])]

\* the action of a button: its id, else the last word of its class, else
\* 'button'
ButtonAction(ps) ==
  IF \E i \in DOMAIN Before(ps) : ps[i].name = "id"
  THEN ps[CHOOSE i \in DOMAIN Before(ps) : ps[i].name = "id"].value
  ELSE IF \E i \in DOMAIN Before(ps) : ps[i].name = "class"
  THEN ps[CHOOSE i \in DOMAIN Before(ps) : ps[i].name = "class"].value
  ELSE "button"

ButtonPass(el) ==
  IF el.tag = "button" THEN Insert(el, ActionMarker, ButtonAction(el.pieces)) ELSE el

RECURSIVE StatePass(_, _)
StatePass(el, patterns) ==
  IF patterns = << >> THEN el
  ELSE LET pattern == Head(patterns)
           done == IF /\ el.tag \in {"div", "span"}
                      /\ HasAttr(el.pieces, {"id", "class"}, {pattern})
                   THEN Insert(el, StateMarker, pattern) ELSE el
       IN StatePass(done, Tail(patterns))

BoardPass(el, analysis) ==
  IF /\ analysis.hasBoard
     /\ el.tag \in {"div", "td"}
     /\ HasAttr(el.pieces, {"class"}, {"cell", "tile", "square"})
  THEN Insert(el, ActionMarker, "cell") ELSE el

CanvasPass(el, analysis) ==
  IF analysis.hasCanvas /\ el.tag = "canvas"
  THEN Insert(el, TouchMarker, "canvas") ELSE el

injectDataAttributes(html, analysis) ==
  [i \in DOMAIN html |->
     CanvasPass(BoardPass(StatePass(ButtonPass(html[i]), analysis.statePatterns),
                          analysis),
                analysis)]

InitInject ==
  /\ store = createGame("turn-based", EmptyState, << >>, NoMetadata, "")
  /\ stateCache = [p \in Procs |-> NoCache]
  /\ pc = [p \in Procs |-> "idle"]
  /\ req = [p \in Procs |-> NoReq]
  /\ now = T0
  /\ nsub = 0
  /\ lastResp = NoResp
  /\ lastCommit = NoCommit
  /\ joinsOk = 0
  /\ onlyJoins = TRUE
  /\ emptyStart = TRUE
  /\ rooms = NoRooms
  /\ bridge = NoBridge
  /\ \E el \in Tags, analysis \in Analyses :
        conv = [NoConv EXCEPT !.gameHtml = << el >>, !.analysis = analysis,
                              !.enhancedHtml = << el >>]

\* injectDataAttributes is applied to the document (handleConvertToMultiplayer
\* applies it to the submitted game and again to the generated document)
InjectDataAttributes ==
  /\ conv.injections < MaxInjections
  /\ conv' = [conv EXCEPT
                !.enhancedHtml = injectDataAttributes(@, conv.analysis),
                !.injections = @ + 1]
  /\ UNCHANGED <<engineVars, rooms, bridge>>

NextInject == InjectDataAttributes

SpecInject == InitInject /\ [][NextInject]_vars

\* ----- the event bridge (frontend/multiplayer-lib.js) ---------------------
\* bridge.eventQueue, sequenceNumber, batchEvents and autoIntercept are the
\* fields of the GameEventBridge; batchTimer: the interval of
\* startBatchProcessing is set; observing: the MutationObserver is connected;
\* posted is the sequence of events arrays the host frame has received by
\* postMessage; emitted is every event object created by emit, in creation
\* order; n counts the emit calls of the game and of the interceptors;
\* destroyed: destroy() has returned; nested: how many times the last call
\* entered the catch of _sendToParent; dom: the DOM event the last step
\* handled
QUEUE_LIMIT == 50
EventTypes == {"TRANSITION", "INTERACTION", "UPDATE", "ERROR"}
Priorities == {"normal", "high"}
\* how many consecutive postMessage calls throw
Throws == 0..MaxThrows

\* _sendToParent(events).  throws > 0: postMessage throws; the catch emits an
\* ERROR event with immediate: true, which calls _sendToParent again, where
\* postMessage throws if throws > 1
RECURSIVE sendToParent(_, _, _)
sendToParent(b, events, throws) ==
  IF ~b.hasParent THEN b
  ELSE IF throws > 0
  THEN LET err == [type |-> "ERROR", sequenceNumber |-> b.sequenceNumber,
                   priority |-> "normal"]
       IN sendToParent([b EXCEPT !.sequenceNumber = @ + 1,
                                 !.emitted = Append(@, err),
                                 !.nested = @ + 1],
                       << err >>, throws - 1)
  ELSE [b EXCEPT !.posted = Append(@, events)]

flushEventQueue(b, throws) ==
  IF b.eventQueue = << >> THEN b
  ELSE sendToParent([b EXCEPT !.eventQueue = << >>], b.eventQueue, throws)

scheduleBatch(b, throws) ==
  IF ~b.batchEvents THEN b
  ELSE IF Len(b.eventQueue) > QUEUE_LIMIT THEN flushEventQueue(b, throws)
  ELSE b

\* the part of emit after the listeners have been notified
Dispatch(b, event, immediate, throws) ==
  IF immediate \/ ~b.batchEvents
  THEN sendToParent(b, << event >>, throws)
  ELSE scheduleBatch([b EXCEPT !.eventQueue = Append(@, event)], throws)

\* emit(type, data, options).  listener: a callback registered with on() for
\* the type emits an INTERACTION event itself when it is notified
emit(b, type, priority, immediate, listener, throws) ==
  LET event == [type |-> type, sequenceNumber |-> b.sequenceNumber,
                priority |-> priority]
      made == [b EXCEPT !.sequenceNumber = @ + 1, !.emitted = Append(@, event)]
      inner == [type |-> "INTERACTION", sequenceNumber |-> made.sequenceNumber,
                priority |-> "normal"]
      notified == IF listener
                  THEN Dispatch([made EXCEPT !.sequenceNumber = @ + 1,
                                             !.emitted = Append(@, inner)],
                                inner, FALSE, 0)
                  ELSE made
  IN Dispatch(notified, event, immediate, throws)

\* new GameEventBridge(config): _initialize registers the interceptors when
\* autoIntercept, starts the batch interval when batchEvents, and emits the
\* TRANSITION event 'initialized'
GameEventBridge(batchEvents, autoIntercept, hasParent) ==
  emit([NoBridge EXCEPT !.batchEvents = batchEvents, !.hasParent = hasParent,
                        !.autoIntercept = autoIntercept,
                        !.observing = autoIntercept,
                        !.batchTimer = batchEvents],
       "TRANSITION", "normal", FALSE, FALSE, 0)

\* the queue of a bridge after its constructor and QUEUE_LIMIT - 1 batched
\* UPDATE emits within one batch interval
FullQueue == [i \in 1..QUEUE_LIMIT |->
                [type |-> IF i = 1 THEN "TRANSITION" ELSE "UPDATE",
                 sequenceNumber |-> i - 1, priority |-> "normal"]]
FullBridge == [NoBridge EXCEPT !.eventQueue = FullQueue, !.emitted = FullQueue,
                               !.sequenceNumber = QUEUE_LIMIT,
                               !.observing = TRUE, !.batchTimer = TRUE]

\* stopBatchProcessing(): clears the interval and flushes
stopBatchProcessing(b, throws) ==
  flushEventQueue([b EXCEPT !.batchTimer = FALSE], throws)

\* _handleConfigUpdate(config).  cfgBatch is config.batchEvents ("undefined"
\* when absent); cfgInterval: config.batchInterval is given
handleConfigUpdate(b, cfgBatch, cfgInterval, throws) ==
  LET set == IF cfgBatch = "undefined" THEN b
             ELSE [b EXCEPT !.batchEvents = (cfgBatch = "true")]
  IN IF cfgInterval /\ set.batchEvents
     THEN [stopBatchProcessing(set, throws) EXCEPT !.batchTimer = TRUE]
     ELSE set

\* destroy(): stops the batch interval, disconnects the observers, clears
\* the subscribers and emits the TRANSITION event 'destroyed' immediately;
\* the document listeners of _interceptClicks, _interceptForms,
\* _interceptKeyboard and _interceptTouch are not removed
destroy(b, throwsFlush, throwsFinal) ==
  LET stopped == stopBatchProcessing(b, throwsFlush)
      cleared == [stopped EXCEPT !.observing = FALSE]
  IN [emit(cleared, "TRANSITION", "normal", TRUE, FALSE, throwsFinal)
        EXCEPT !.destroyed = TRUE]

\* the DOM events on marked elements and the interceptor that handles each
DomEvents == {"click", "keydown", "submit", "touchstart", "mutation"}
\* the event type the interceptor emits
TypeOfDom(dom) == IF dom = "mutation" THEN "UPDATE" ELSE "INTERACTION"
\* the interceptor of the DOM event is attached
Attached(b, dom) == IF dom = "mutation" THEN b.observing ELSE b.autoIntercept

InitBridge ==
  /\ store = createGame("turn-based", EmptyState, << >>, NoMetadata, "")
  /\ stateCache = [p \in Procs |-> NoCache]
  /\ pc = [p \in Procs |-> "idle"]
  /\ req = [p \in Procs |-> NoReq]
  /\ now = T0
  /\ nsub = 0
  /\ lastResp = NoResp
  /\ lastCommit = NoCommit
  /\ joinsOk = 0
  /\ onlyJoins = TRUE
  /\ emptyStart = TRUE
  /\ rooms = NoRooms
  /\ conv = NoConv
  /\ bridge \in { GameEventBridge(batchEvents, autoIntercept, hasParent) :
                    batchEvents \in BOOLEAN, autoIntercept \in BOOLEAN,
                    hasParent \in BOOLEAN }
                \cup {FullBridge}

\* the start of a call into the bridge
Entered == [bridge EXCEPT !.nested = 0, !.dom = None]

\* the game calls emit
Emit(type, priority, immediate, listener, throws) ==
  /\ bridge.n < MaxEmits
  /\ listener => type = "UPDATE"
  /\ throws > 0 => bridge.hasParent
  /\ bridge' = [emit(Entered, type, priority, immediate, listener, throws)
                  EXCEPT !.n = @ + 1]
  /\ UNCHANGED <<engineVars, rooms, conv>>

\* a click, key press, submit or touch on a marked element, or a mutation
\* of one, reaches its interceptor, which calls emit
Intercept(dom, throws) ==
  /\ bridge.n < MaxEmits
  /\ Attached(bridge, dom)
  /\ throws > 0 => bridge.hasParent
  /\ bridge' = [emit(Entered, TypeOfDom(dom), "normal", FALSE, FALSE, throws)
                  EXCEPT !.n = @ + 1, !.dom = dom]
  /\ UNCHANGED <<engineVars, rooms, conv>>

\* the setInterval callback of startBatchProcessing
BatchTimer(throws) ==
  /\ bridge.batchTimer
  /\ bridge.eventQueue # << >>
  /\ throws > 0 => bridge.hasParent
  /\ bridge' = flushEventQueue(Entered, throws)
  /\ UNCHANGED <<engineVars, rooms, conv>>

\* the host posts a CONFIG_UPDATE message
ConfigUpdate(cfgBatch, cfgInterval, throws) ==
  /\ throws > 0 => bridge.hasParent
  /\ bridge' = handleConfigUpdate(Entered, cfgBatch, cfgInterval, throws)
  /\ UNCHANGED <<engineVars, rooms, conv>>

\* the game calls destroy()
Destroy(throwsFlush, throwsFinal) ==
  /\ ~bridge.destroyed
  /\ (throwsFlush > 0 \/ throwsFinal > 0) => bridge.hasParent
  /\ bridge' = destroy(Entered, throwsFlush, throwsFinal)
  /\ UNCHANGED <<engineVars, rooms, conv>>

NextBridge ==
  \/ \E type \in EventTypes, priority \in Priorities :
       \E immediate \in BOOLEAN, listener \in BOOLEAN, throws \in Throws :
          Emit(type, priority, immediate, listener, throws)
  \/ \E throws \in Throws : BatchTimer(throws)

SpecBridge == InitBridge /\ [][NextBridge]_vars

\* the life of a bridge: construction, DOM events, emits, the batch
\* interval, CONFIG_UPDATE messages and destroy()
InitLife == InitBridge /\ bridge # FullBridge

NextLife ==
  \/ \E type \in EventTypes, immediate \in BOOLEAN :
       Emit(type, "normal", immediate, FALSE, 0)
  \/ \E throws \in Throws : BatchTimer(throws)
  \/ \E dom \in DomEvents, throws \in Throws : Intercept(dom, throws)
  \/ \E cfgBatch \in {"undefined", "true", "false"} :
       \E cfgInterval \in BOOLEAN, throws \in Throws :
          ConfigUpdate(cfgBatch, cfgInterval, throws)
  \/ \E throwsFlush \in Throws, throwsFinal \in Throws :
       Destroy(throwsFlush, throwsFinal)

SpecLife == InitLife /\ [][NextLife]_vars

\* the batch interval keeps firing while it is set
SpecLifeFair ==
  SpecLife /\ WF_vars(\E throws \in Throws : BatchTimer(throws))

\* ----- submits whose payload carries fields of the room state --------------
\* p1 has scored before the room was stored
ScoredPlayers == << NewPlayer("p1", [NoData EXCEPT !.score = 3]),
                    NewPlayer("p2", NoData) >>
PayloadRooms ==
  { createGame("turn-based", EmptyState, << >>, NoMetadata, ""),
    createGame("counter", [LobbyOfTwo EXCEPT !.playerCount = 1],
               << NewPlayer("p1", NoData) >>, [maxPlayers |-> 3, minPlayers |-> 2], ""),
    createGame("turn-based", LobbyOfTwo, ScoredPlayers, NoMetadata, ""),
    createGame("turn-based", ActiveOfTwo, ScoredPlayers, NoMetadata, ""),
    createGame("turn-based", V_LobbyOfTwo, << >>, NoMetadata, Arn),
    createGame("turn-based", [V_LobbyOfTwo EXCEPT !.players = ScoredPlayers,
                                                   !.gameActive = TRUE,
                                                   !.startedAt = "Date.now()"],
               << >>, NoMetadata, Arn) }

\* the payloads that name fields of the state the handlers keep themselves
StatePayloadsOf(type) ==
  CASE type \in {"START", "start"} ->
         {NoData, [NoData EXCEPT !.gameActive = "false"], [NoData EXCEPT !.round = 2]}
    [] type \in {"END", "end"} ->
         {NoData, [NoData EXCEPT !.gameActive = "true"],
          [NoData EXCEPT !.finalScores = "{}"], [NoData EXCEPT !.winner = "p1"]}
    [] type \in {"UPDATE", "update"} -> {NoData, [NoData EXCEPT !.stTurn = "p3"]}
    [] OTHER -> {NoData}

InitPayload ==
  /\ store \in PayloadRooms
  /\ stateCache = [p \in Procs |-> NoCache]
  /\ pc = [p \in Procs |-> "idle"]
  /\ req = [p \in Procs |-> NoReq]
  /\ now = T0
  /\ nsub = 0
  /\ lastResp = NoResp
  /\ lastCommit = NoCommit
  /\ joinsOk = 0
  /\ onlyJoins = TRUE
  /\ emptyStart = (store.players = << >> /\ store.gameState.players = << >>)
  /\ rooms = NoRooms
  /\ conv = NoConv
  /\ bridge = NoBridge

\* one container handles every invocation
NextPayload ==
  \/ Submit("A")
  \/ \E type \in Types, playerId \in Submitters :
       \E data \in StatePayloadsOf(type), invoked \in InvokeOutcomes :
          Spelled(type, invoked) /\ Process("A", type, playerId, data, invoked)
  \/ Save("A")
  \/ SaveFail("A")

SpecPayload == InitPayload /\ [][NextPayload]_vars

\* ----- notions shared by the properties -----------------------------------
JoinTypes == {"JOIN", "join"}
MoveTypes == {"MOVE", "move"}

\* the reasons with which a handler or the validator rejects an action
ValidationErrors ==
  {"Player already in game", "Game is full", "Game already active",
   "Need at least N players to start", "Not enough players", "Game not active",
   "Player not in game", "Not your turn", "Invalid board position",
   "Validation error"}

\* the players recorded for a room: the players attribute and, for rooms
\* run by a validator, state.players
PlayersOf(room) == Ids(room.players) \cup Ids(room.gameState.players)

Idle == \A p \in Procs : pc[p] = "idle"

\* ----- C1 ------------------------------------------------------------------
\* C1: submits to one room never interleave: no submit loads the room while
\* another submit is between its load and its commit.
C1_NoInterleaving ==
  [][\A p \in Procs :
       (pc[p] = "load" /\ pc'[p] # "load")
         => \A q \in Procs \ {p} : pc[q] # "save"]_vars

\* ----- C2 ------------------------------------------------------------------
\* C2: every commit stores a stateVersion strictly greater than the one
\* stored before (two commits may read the same Date.now()), and a step that
\* is not a commit leaves stateVersion alone.
C2_VersionIncreases ==
  [][/\ lastCommit'.done => store'.stateVersion > store.stateVersion
     /\ ~lastCommit'.done => store'.stateVersion = store.stateVersion]_vars

\* ----- C3 ------------------------------------------------------------------
ValidationFailed(resp) == resp.sent /\ ~resp.success /\ resp.error \in ValidationErrors

\* C3: a submit whose validation fails leaves the stored room (state,
\* players, stateVersion) as it was and its response carries no broadcast.
C3_RejectChangesNothing ==
  [][ValidationFailed(lastResp')
       => /\ store' = store
          /\ ~lastCommit'.done
          /\ lastResp'.broadcast = None]_vars

\* a START below the minimum has just been rejected and the room is still
\* in the lobby
C3_Witness ==
  /\ ValidationFailed(lastResp)
  /\ lastResp.type \in {"START", "start"}
  /\ ~store.gameState.gameActive

\* ----- C4 ------------------------------------------------------------------
\* C4: a response with success:true comes with a commit: the store holds
\* the state of the response and the response's stateVersion is greater
\* than the version stored before.
C4_SuccessMeansCommit ==
  [][(lastResp'.sent /\ lastResp'.success)
       => /\ lastCommit'.done
          /\ lastResp'.hasState
          /\ store'.gameState = lastResp'.state
          /\ lastResp'.stateVersion > store.stateVersion]_vars

\* ----- C5 ------------------------------------------------------------------
\* C5: a submit that returned the timeout envelope never writes the store.
C5_NoCommitAfterTimeout == ~(lastCommit.done /\ lastCommit.timedOut)

\* ----- C6 ------------------------------------------------------------------
\* C6: in a room created without players, after JOIN submits only, the
\* players recorded are as many as the JOINs that returned success.
C6_JoinCount ==
  (emptyStart /\ onlyJoins /\ Idle) => Cardinality(PlayersOf(store)) = joinsOk

\* ----- C7 ------------------------------------------------------------------
\* the players of a room that are not eliminated
NotEliminatedIn(ps) == {ps[i].id : i \in {j \in DOMAIN ps : ~ps[j].eliminated}}
NotEliminated(room) ==
  NotEliminatedIn(room.players) \cup NotEliminatedIn(room.gameState.players)

\* C7: in an active turn-based room, after an accepted MOVE by P the room's
\* currentTurn is not P, unless P is the only player not eliminated.
C7_TurnPasses ==
  [][(/\ store.gameType = "turn-based" /\ store.gameState.gameActive
      /\ lastCommit'.done /\ lastCommit'.type \in MoveTypes
      /\ ~lastCommit'.timedOut /\ lastResp'.success)
       => \/ store'.gameState.currentTurn # lastCommit'.playerId
          \/ NotEliminated(store') \subseteq {lastCommit'.playerId}]_vars

\* ----- C8 ------------------------------------------------------------------
\* a MOVE of player P is processed in this step by container p while the
\* room is active and the turn is held by another player
OutOfTurnMove(p, P) ==
  /\ pc[p] = "load" /\ ~req[p].timedOut
  /\ store.gameState.gameActive
  /\ store.gameState.currentTurn \notin {None, P}
  /\ P \in PlayersOf(store)
  /\ \/ pc'[p] = "save" /\ req'[p].type \in MoveTypes /\ req'[p].playerId = P
     \/ pc'[p] = "idle" /\ lastResp'.sent /\ lastResp'.type \in MoveTypes
                        /\ lastResp'.playerId = P

\* C8: in an active room a MOVE by a player who does not hold the turn
\* fails with "Not your turn", changes nothing and has no broadcast.
C8_OutOfTurnRejected ==
  [][\A p \in Procs, P \in Submitters :
       OutOfTurnMove(p, P)
         => /\ pc'[p] = "idle"
            /\ ~lastResp'.success
            /\ lastResp'.error = "Not your turn"
            /\ lastResp'.broadcast = None
            /\ store' = store]_vars

\* ----- C9 ------------------------------------------------------------------
\* the maximum the claim gives: the declared one, else 2 for the kinds
\* turn-based and board, else 8
ClaimedMax(room) ==
  IF room.metadata.maxPlayers # 0 THEN room.metadata.maxPlayers
  ELSE IF room.gameType \in {"turn-based", "board"} THEN 2 ELSE 8

\* a JOIN of player P is processed in this step by container p
JoinProcessed(p, P) ==
  /\ pc[p] = "load" /\ ~req[p].timedOut
  /\ \/ pc'[p] = "save" /\ req'[p].type \in JoinTypes /\ req'[p].playerId = P
     \/ pc'[p] = "idle" /\ lastResp'.sent /\ lastResp'.type \in JoinTypes
                        /\ lastResp'.playerId = P

\* C9: a JOIN by a new player is accepted while the room holds fewer than
\* the maximum, and a JOIN into a room that holds the maximum fails with
\* "Game is full" and changes nothing.
C9_MaxPlayers ==
  [][\A p \in Procs, P \in Submitters :
       JoinProcessed(p, P)
         => IF Cardinality(PlayersOf(store)) >= ClaimedMax(store)
            THEN /\ pc'[p] = "idle"
                 /\ ~lastResp'.success
                 /\ lastResp'.error = "Game is full"
                 /\ store' = store
            ELSE (P \notin PlayersOf(store)) => pc'[p] = "save"]_vars

\* ----- C10 -----------------------------------------------------------------
\* the declared minimum, else the default of the generic handler
ClaimedMin(room) ==
  IF room.metadata.minPlayers # 0 THEN room.metadata.minPlayers ELSE 1

\* C10: a room in active phase holds at least the minimum number of players.
C10_ActiveHasMinPlayers ==
  store.gameState.gameActive => Cardinality(PlayersOf(store)) >= ClaimedMin(store)

\* ----- C11 -----------------------------------------------------------------
StartTypes == {"START", "start"}
EndTypes == {"END", "end"}

\* the phase of a room: active while gameActive, ended once an END or a
\* win has been recorded, lobby before
Phase(gs) == IF gs.gameActive THEN "active"
             ELSE IF gs.endedBy # None \/ gs.winner # None THEN "ended"
             ELSE "lobby"

\* C11: the phase goes from lobby to active only by a committed START and
\* from active to ended only by a committed END or a MOVE that records a
\* winner; no other step changes the phase.
C11_PhaseTransitions ==
  [][Phase(store'.gameState) # Phase(store.gameState)
       => /\ lastCommit'.done
          /\ \/ /\ Phase(store.gameState) = "lobby"
                /\ Phase(store'.gameState) = "active"
                /\ lastCommit'.type \in StartTypes
             \/ /\ Phase(store.gameState) = "active"
                /\ Phase(store'.gameState) = "ended"
                /\ \/ lastCommit'.type \in EndTypes
                   \/ lastCommit'.type \in MoveTypes
                        /\ store'.gameState.winner # None]_vars

\* ----- C12 -----------------------------------------------------------------
\* C12: once a room is in ended phase no submit is accepted and no submit
\* writes the store.
C12_EndedIsFinal ==
  [][Phase(store.gameState) = "ended"
       => /\ ~lastCommit'.done
          /\ (lastResp'.sent /\ ~lastResp'.shouldRetry) => ~lastResp'.success]_vars

\* ----- C13 -----------------------------------------------------------------
\* a submit has been answered by the handlers or the validator in this step
Answered(resp) == resp.sent /\ ~resp.shouldRetry /\ resp.error # "Failed to save game state"

\* C13: in a room whose conversion status is not complete every submit
\* returns the room-not-ready error and writes nothing.
C13_NotReady ==
  [][store.conversionStatus \in {"pending", "processing", "failed"}
       => /\ ~lastCommit'.done
          /\ Answered(lastResp')
               => (~lastResp'.success /\ lastResp'.error = "ROOM_NOT_READY")]_vars

\* ----- C14 -----------------------------------------------------------------
\* C14: no step other than a committed END removes a player from the
\* players recorded for the room.
C14_PlayersNeverShrink ==
  [][(lastCommit'.done /\ lastCommit'.type \in EndTypes)
       \/ PlayersOf(store) \subseteq PlayersOf(store')]_vars

\* ----- C15 -----------------------------------------------------------------
\* C15: a validator reference, once assigned, is never changed or cleared,
\* and a commit leaves every attribute other than state, players, metadata
\* and version as it was.
C15_ValidatorRefImmutable ==
  [][/\ store.serverLogicUrl # "" => store'.serverLogicUrl = store.serverLogicUrl
     /\ lastCommit'.done => /\ store'.serverLogicUrl = store.serverLogicUrl
                            /\ store'.gameType = store.gameType
                            /\ store'.conversionStatus = store.conversionStatus]_vars

\* ----- C16 -----------------------------------------------------------------
StandardTypes == {"JOIN", "START", "MOVE", "UPDATE", "END"}
\* the game the handlers of the answering invocation worked on
Worked == IF pc["A"] = "save" THEN stateCache["A"].data ELSE loadGameState("A")
\* the answer is the one processGenericAction gives for the kind
GenericAnswer(resp) ==
  \E data \in PayloadsOf(resp.type) :
     LET g == processGenericAction(Worked, Worked.gameState, resp.type,
                                   resp.playerId, data)
     IN /\ resp.success = g.success
        /\ resp.error = g.error
        /\ resp.broadcast = g.bcast

\* C16: when the validator of the room could not be invoked, a standard
\* kind is answered by the generic handler and any other kind is answered
\* success:false and commits nothing.
C16_ValidatorFallback ==
  [][(Answered(lastResp') /\ lastResp'.fallback)
       => IF lastResp'.type \in StandardTypes
          THEN GenericAnswer(lastResp')
          ELSE ~lastResp'.success /\ ~lastCommit'.done]_vars

\* ----- C17 -----------------------------------------------------------------
SaveFailed(resp) == resp.sent /\ resp.error = "Failed to save game state"

\* C17: a submit whose store write fails is answered with a failure, leaves
\* the stored room as it was, and the game the next load returns, from the
\* store or from the cache, is the room as stored before the submit.
C17_FailedWriteChangesNothing ==
  [][SaveFailed(lastResp')
       => /\ ~lastResp'.success
          /\ store' = store
          /\ loadGameState("A")' = store]_vars

\* ----- C18 -----------------------------------------------------------------
\* the result of the invocation in container p when the game is the one
\* loadGameState returns, and when it is the one read from the store
CachedResult(p, type, playerId, data, invoked) ==
  processAction(loadGameState(p), type, playerId, data, invoked)
DirectResult(type, playerId, data, invoked) ==
  processAction(store, type, playerId, data, invoked)

\* C18: whatever action an invocation carries, the result computed on the
\* game its load returns is the result computed on the stored game.
C18_CacheTransparent ==
  \A p \in Procs :
     pc[p] = "load"
       => \A type \in Types, playerId \in Submitters :
            \A data \in PayloadsOf(type), invoked \in InvokeOutcomes :
               Spelled(type, invoked)
                 => CachedResult(p, type, playerId, data, invoked)
                      = DirectResult(type, playerId, data, invoked)

\* ----- C19 -----------------------------------------------------------------
\* what an action does to a room: accepted or not, and the state and
\* players it would commit (the records of the model carry no timestamps)
Outcome(r) == [success |-> r.success, stateChanged |-> r.stateChanged,
               newState |-> r.newState, setPlayers |-> r.setPlayers,
               newPlayers |-> r.newPlayers]

\* C19: in a turn-based room the outcome of the next action of a sequence
\* is fixed by the actions applied so far: it is the same in whichever
\* container the action is served.
C19_SameOutcome ==
  (store.gameType = "turn-based" /\ \A p \in Procs : pc[p] = "idle")
    => \A type \in Types, playerId \in Submitters :
         \A data \in PayloadsOf(type), invoked \in InvokeOutcomes :
            Spelled(type, invoked)
              => Outcome(CachedResult("A", type, playerId, data, invoked))
                   = Outcome(CachedResult("B", type, playerId, data, invoked))

\* ----- C20 -----------------------------------------------------------------
\* the room the step of container p is about
RoomOf(p) == IF rooms.inv[p].gameId # None THEN rooms.inv[p].gameId
             ELSE rooms'.inv[p].gameId

\* C20: a step of an invocation for one room leaves the item of every other
\* room, and every cache entry of every other room, as they were; and the
\* game an invocation loads is the same whatever the item of another room
\* holds.
C20_RoomsIndependent ==
  [][\A p \in Procs :
        rooms'.inv[p] # rooms.inv[p]
          => \A h \in GameIds \ {RoomOf(p)} :
               /\ rooms'.table[marshallKey(h)] = rooms.table[marshallKey(h)]
               /\ \A q \in Procs : rooms'.cache[q][h] = rooms.cache[q][h]
               /\ \A other \in StartRooms :
                    LoadedGame([rooms.table EXCEPT ![marshallKey(h)] = other],
                               rooms.cache, p, RoomOf(p))
                      = LoadedGame(rooms.table, rooms.cache, p, RoomOf(p))]_vars

\* an action for g1 has been committed while an invocation for g2, whose
\* item holds players and has never been written, is about to save
C20_Witness ==
  /\ rooms.table[marshallKey("g1")].stateVersion > 0
  /\ rooms.table[marshallKey("g2")].stateVersion = 0
  /\ rooms.table[marshallKey("g2")].players # << >>
  /\ \E p \in Procs : rooms.inv[p].pc = "save" /\ rooms.inv[p].gameId = "g2"

\* ----- C21 -----------------------------------------------------------------
PresenceTypes == {"MOVE", "move", "UPDATE", "update", "END", "end"}

\* C21: a MOVE, UPDATE or END whose player identifier is not among the
\* players of the room is rejected and commits nothing.
C21_NonMemberRejected ==
  [][(/\ Answered(lastResp')
      /\ lastResp'.type \in PresenceTypes
      /\ lastResp'.playerId \notin PlayersOf(store))
       => (~lastResp'.success /\ ~lastCommit'.done)]_vars

\* ----- C22 -----------------------------------------------------------------
DeltaMove == [NoData EXCEPT !.delta = 1]
\* the game the invocation in container A has loaded
Loaded == loadGameState("A")

\* C22: in a counter room an accepted MOVE {delta: 1} adds 1 to
\* state.counter, and the one that reaches the target records the mover as
\* winner, ends the game and is broadcast as GAME_ENDED.
C22_CounterMove ==
  (pc["A"] = "load" /\ Loaded.gameType = "counter" /\ Loaded.gameState.target > 0)
    => \A playerId \in Submitters, invoked \in InvokeOutcomes :
         LET r == processAction(Loaded, "MOVE", playerId, DeltaMove, invoked)
         IN r.success
              => /\ r.stateChanged
                 /\ r.newState.counter = Loaded.gameState.counter + 1
                 /\ r.newState.counter = Loaded.gameState.target
                      => /\ r.newState.winner = playerId
                         /\ Phase(r.newState) = "ended"
                         /\ r.bcast = "GAME_ENDED"

\* ----- C23 -----------------------------------------------------------------
\* the MOVE as each path reads it: the generic handlers take MOVE, the
\* generated validator takes move
MovePaths == {<<"MOVE", FALSE>>} \cup
             (IF HasValidator(Loaded) THEN {<<"move", TRUE>>} ELSE {})
\* marking cell q for playerId completes one of the eight lines
Completes(board, q, playerId) ==
  \E k \in DOMAIN PatternSeq :
     /\ \E i \in 1..3 : PatternSeq[k][i] = q
     /\ \A i \in 1..3 : PatternSeq[k][i] # q => board.cells[PatternSeq[k][i]] = playerId

\* C23: in a started room of two players a MOVE by the player whose turn
\* it is to an empty cell is accepted, and when it completes a line the
\* mover is recorded as winner and the game is ended.
C23_BoardMove ==
  (/\ pc["A"] = "load"
   /\ Loaded.gameState.gameActive
   /\ Cardinality(PlayersOf(Loaded)) = 2)
    => \A playerId \in PlayersOf(Loaded), q \in {"0,0", "1,1"}, path \in MovePaths :
         (/\ Loaded.gameState.currentTurn = playerId
          /\ Loaded.gameState.board.cells[q] = None)
           => LET r == processAction(Loaded, path[1], playerId,
                                     [NoData EXCEPT !.position = q], path[2])
              IN /\ r.success
                 /\ Completes(Loaded.gameState.board, q, playerId)
                      => (r.newState.winner = playerId /\ Phase(r.newState) = "ended")

\* ----- C24 -----------------------------------------------------------------
\* the request has made its LLM call and is still running, or has returned
\* its result
PastLLM(r) == conv.pc[r] \in {"converted", "deployed", "htmlStored", "done"}
\* the step calls the LLM, deploys a validator or publishes an artifact
ConversionWork ==
  \/ conv'.llmCalls # conv.llmCalls
  \/ conv'.created # conv.created
  \/ conv'.arn # conv.arn
  \/ conv'.html # conv.html
  \/ conv'.validatorJs # conv.validatorJs

RECURSIVE Flatten(_)
Flatten(batches) == IF batches = << >> THEN << >>
                    ELSE Head(batches) \o Flatten(Tail(batches))
\* every event the host has received, in the order received
Delivered == Flatten(bridge.posted)
Increasing(events) ==
  \A i, j \in DOMAIN events :
     i < j => events[i].sequenceNumber < events[j].sequenceNumber

\* C27: the host receives the events of a session in strictly increasing
\* sequenceNumber order.
C27_DeliveredInOrder == Increasing(Delivered)

\* ----- C28 -----------------------------------------------------------------
Urgent(event) == event.type = "ERROR" \/ event.priority = "high"
\* the events created by the step
EmittedNow ==
  { bridge'.emitted[i] : i \in (DOMAIN bridge'.emitted) \ (DOMAIN bridge.emitted) }
InQueue(b, event) == \E i \in DOMAIN b.eventQueue : b.eventQueue[i] = event
InPosted(b, event) ==
  \E k \in DOMAIN b.posted : \E i \in DOMAIN b.posted[k] : b.posted[k][i] = event
\* the events that have left the queue, or were never queued, without
\* being posted
Discarded(b) ==
  { b.emitted[i] : i \in { j \in DOMAIN b.emitted :
                             /\ ~InQueue(b, b.emitted[j])
                             /\ ~InPosted(b, b.emitted[j]) } }

\* C28: an ERROR event, and an event of priority high, is posted within the
\* emit call that creates it and is never put in the batch queue (unless
\* the post itself failed and the event is lost).
C28_UrgentBypassesQueue ==
  [][\A event \in EmittedNow \ Discarded(bridge') :
        Urgent(event) => (InPosted(bridge', event) /\ ~InQueue(bridge', event))]_vars

\* ----- C29 -----------------------------------------------------------------
\* C29: the sequence numbers of the events created in a session are
\* strictly increasing in creation order, and every events array posted to
\* the host lists its events in that order.
C29_SequenceAndBatchOrder ==
  /\ Increasing(bridge.emitted)
  /\ \A k \in DOMAIN bridge.posted : Increasing(bridge.posted[k])

\* ----- C30 -----------------------------------------------------------------
Queued(b, type) == \E i \in DOMAIN b.eventQueue : b.eventQueue[i].type = type

\* C30: the queue never holds more than its limit; in a frame with a
\* parent no ERROR event is discarded; an INTERACTION event is discarded only when no UPDATE event
\* is queued, and a TRANSITION event only when neither an UPDATE nor an
\* INTERACTION event is queued.
C30_BoundedQueueDropOrder ==
  /\ [](Len(bridge.eventQueue) <= QUEUE_LIMIT)
  /\ [][\A event \in Discarded(bridge') \ Discarded(bridge) :
           /\ bridge.hasParent => event.type # "ERROR"
           /\ event.type = "INTERACTION" => ~Queued(bridge', "UPDATE")
           /\ event.type = "TRANSITION"
                => (~Queued(bridge', "UPDATE") /\ ~Queued(bridge', "INTERACTION"))]_vars

\* ----- C31 -----------------------------------------------------------------
\* the step is a call of destroy()
DestroyReturns == bridge'.destroyed /\ ~bridge.destroyed

\* C31: when destroy() returns the queue is empty and, in a frame whose
\* parent accepted the posts, every event that was queued has been posted;
\* after destroy() no DOM event on a marked element creates an event.
C31_DestroyStopsInterception ==
  /\ [][DestroyReturns =>
          /\ bridge'.eventQueue = << >>
          /\ (bridge.hasParent /\ bridge'.nested = 0)
               => \A i \in DOMAIN bridge.eventQueue :
                     InPosted(bridge', bridge.eventQueue[i])]_vars
  /\ [][bridge.destroyed => \A event \in EmittedNow : bridge'.dom = None]_vars

\* ----- C32 -----------------------------------------------------------------
\* C32: a call whose post to the host failed has created an ERROR event for
\* the subscribers, and its failure handling has not failed in turn: the
\* catch of _sendToParent is entered at most once per call, however long
\* the host keeps failing.
C32_FailureHandlingBounded ==
  /\ bridge.nested > 0
       => \E i \in DOMAIN bridge.emitted : bridge.emitted[i].type = "ERROR"
  /\ bridge.nested <= 1

\* ----- C33 -----------------------------------------------------------------
\* a START is processed in this step by container p
StartProcessed(p) ==
  /\ pc[p] = "load" /\ ~req[p].timedOut
  /\ \/ pc'[p] = "save" /\ req'[p].type \in StartTypes
     \/ pc'[p] = "idle" /\ lastResp'.sent /\ lastResp'.type \in StartTypes

\* C33: in a room served by the generic handlers, a START on a room in
\* lobby phase that holds the minimum number of players is accepted and its
\* new state is active, in round 1 and carries a start time, whatever the
\* payload; any other START is rejected and changes nothing.
C33_StartActivates ==
  [][\A p \in Procs :
       (StartProcessed(p) /\ ~HasValidator(store))
         => IF /\ Phase(store.gameState) = "lobby"
               /\ Cardinality(PlayersOf(store)) >= ClaimedMin(store)
            THEN /\ pc'[p] = "save"
                 /\ req'[p].result.success
                 /\ req'[p].result.newState.gameActive
                 /\ req'[p].result.newState.round = 1
                 /\ req'[p].result.newState.startedAt # None
            ELSE /\ pc'[p] = "idle"
                 /\ ~lastResp'.success
                 /\ store' = store]_vars

\* ----- C34 -----------------------------------------------------------------
\* an END is accepted as an END (broadcast GAME_ENDED) in this step by
\* container p, on the path the room is set up for
EndAccepted(p) ==
  /\ pc[p] = "load" /\ pc'[p] = "save"
  /\ req'[p].type \in EndTypes /\ req'[p].result.success /\ ~req'[p].fallback
  /\ req'[p].result.bcast = "GAME_ENDED"

\* the score recorded for a player of the room
ScoreOf(room, id) ==
  IF Has(room.players, id) THEN Get(room.players, id).score
  ELSE Get(room.gameState.players, id).score

\* C34: the state of an accepted END is not active and its finalScores hold
\* one entry per player of the room, equal to the player's score, and no
\* other entry, whatever the payload.
C34_EndRecordsScores ==
  [][\A p \in Procs :
       EndAccepted(p)
         => LET ended == req'[p].result.newState
                entries == { ended.finalScores[i] : i \in DOMAIN ended.finalScores }
            IN /\ ~ended.gameActive
               /\ Cardinality(entries) = Len(ended.finalScores)
               /\ entries = { [id |-> id, score |-> ScoreOf(store, id)] :
                                id \in PlayersOf(store) }]_vars

\* ----- C35 -----------------------------------------------------------------
\* the attributes a browser reads from the tag: marker text put inside a
\* quoted value ends that value, and the '>' that followed ends the tag, so
\* the cut attribute carries no marker and the attributes behind it are lost
Dom(el) ==
  LET k == FirstGt(el.pieces)
  IN IF k # 0 /\ el.pieces[k].inj # << >> THEN SubSeq(el.pieces, 1, k - 1)
     ELSE el.pieces
MarkersOf(el, marker) == SelectSeq(Dom(el), LAMBDA piece : piece.name = marker)
\* the element is one the analysis infers the marker for
Inferred(el, analysis, marker) ==
  LET ps == Dom(el)
      attr(names, words) ==
        \E i \in DOMAIN ps :
           ps[i].name \in names /\ \E w \in words : Contains(ps[i].value, w)
  IN CASE marker = ActionMarker ->
            \/ el.tag = "button"
            \/ analysis.hasBoard /\ el.tag \in {"div", "td"}
                 /\ attr({"class"}, {"cell", "tile", "square"})
       [] marker = StateMarker ->
            /\ el.tag \in {"div", "span"}
            /\ attr({"id", "class"},
                    { analysis.statePatterns[j] : j \in DOMAIN analysis.statePatterns })
       [] OTHER -> analysis.hasCanvas /\ el.tag = "canvas"

\* C35: after the injection every element keeps the markers it carried,
\* every inferred element that carried no marker of a kind carries exactly
\* one, and a second application changes nothing.
C35_InjectionPreservesMarkers ==
  /\ conv.injections >= 1
       => \A i \in DOMAIN conv.gameHtml : \A marker \in MarkerNames :
            LET before == conv.gameHtml[i]
                after == conv.enhancedHtml[i]
            IN /\ MarkersOf(before, marker) # << >>
                    => MarkersOf(after, marker) = MarkersOf(before, marker)
               /\ (Inferred(before, conv.analysis, marker)
                     /\ MarkersOf(before, marker) = << >>)
                    => Len(MarkersOf(after, marker)) = 1
  /\ conv.injections = 2
       => conv.enhancedHtml = injectDataAttributes(conv.gameHtml, conv.analysis)

\* ----- C36 -----------------------------------------------------------------
\* a JOIN of player P that was accepted as a JOIN is committed in this step
JoinCommitted(P) ==
  /\ lastCommit'.done /\ lastCommit'.playerId = P
  /\ \E p \in Procs : /\ pc[p] = "save" /\ pc'[p] = "idle"
                      /\ req[p].result.success
                      /\ req[p].result.bcast = "PLAYER_JOINED"
\* the generic handlers treat P as a player of the room
GenericPresent(room, P) ==
  /\ handleUpdate(room, room.gameState, P, NoData).success
  /\ handleMove(room, room.gameState, P, NoData).error # "Player not in game"
  /\ handleJoin(room, room.gameState, P, NoData).error = "Player already in game"
\* the validator treats P as a player of the room
ValidatorPresent(room, P) ==
  /\ V_handler("update", room.gameState, P, NoData).valid
  /\ V_handler("move", room.gameState, P, NoData).reason # "Player not in game"

\* C36: in a room with a validator, a player whose JOIN has been committed,
\* on either path, is a player of the room for the generic handlers and for
\* the validator.
C36_OnePlayersMapping ==
  [][\A P \in Submitters :
       (JoinCommitted(P) /\ HasValidator(store'))
         => (GenericPresent(store', P) /\ ValidatorPresent(store', P))]_vars

\* ----- C37 -----------------------------------------------------------------
\* some player of the room passes the turn check of MOVE
SomeoneMayMove(room) ==
  \E P \in PlayersOf(room) :
     processGenericAction(room, room.gameState, "MOVE", P, NoData).error
       # "Not your turn"

\* C37: while a room served by the generic handlers is active and its
\* currentTurn is set, currentTurn names a player of the room who is not
\* eliminated, and the MOVE of some player passes the turn check.
C37_TurnHolderIsPlayer ==
  (/\ ~HasValidator(store) /\ store.gameState.gameActive
   /\ store.gameState.currentTurn # None)
    => /\ store.gameState.currentTurn \in NotEliminated(store)
       /\ SomeoneMayMove(store)

\* ----- C38 -----------------------------------------------------------------
\* a MOVE is accepted as a MOVE (broadcast MOVE_MADE) in this step by
\* container p
MoveAccepted(p) ==
  /\ pc[p] = "load" /\ pc'[p] = "save"
  /\ req'[p].type \in MoveTypes /\ req'[p].result.success
  /\ req'[p].result.bcast = "MOVE_MADE"

\* C38: the state of an accepted MOVE keeps every occupied cell of the board
\* the MOVE was applied to, on the generic path and on the validator path.
C38_MoveKeepsOccupiedCells ==
  [][\A p \in Procs :
       MoveAccepted(p)
         => LET before == loadGameState(p).gameState.board.cells
                after == req'[p].result.newState.board.cells
            IN \A c \in DOMAIN before :
                 before[c] # None => after[c] = before[c]]_vars

\* ----- C39 -----------------------------------------------------------------
\* C39: whenever the bridge holds queued events, the queue is flushed later
\* on by the batch interval alone, in every configuration that construction,
\* CONFIG_UPDATE messages and destroy() lead to.
C39_QueueFlushed ==
  (bridge.eventQueue # << >>) ~> (bridge.eventQueue = << >>)

====
